---- MODULE Spec2Model ----
(***************************************************************************)
(* BackTrack: a floating prompt navigator for chat pages.                  *)
(*                                                                         *)
(* Three subsystems are modelled, each with its own specification:         *)
(*   SpecScanner  the useChatScanner hook: scanForPrompts, the debounced   *)
(*                rescan driven by the MutationObserver, the URL-change    *)
(*                settle timers and the hook's teardown;                   *)
(*   SpecPanel    the ChatNavigator geometry: drag, resize, collapse,      *)
(*                expand and window resize;                                *)
(*   SpecNav      scrollToPrompt's two-stage highlight timers.             *)
(* Time is kept as the remaining delay of every pending timer; a timer     *)
(* whose delay has elapsed runs before time advances further or any later  *)
(* event is handled (a single-threaded event loop).                        *)
(***************************************************************************)
EXTENDS Integers, Sequences, FiniteSets, TLC

VARIABLES
    \* ---- useChatScanner -------------------------------------------------
    hostname,      \* window.location.hostname, a sequence of characters
    dom,           \* the document: the candidate elements in document order
    prompts,       \* useState<ChatPrompt[]>: the published prompt list
    platform,      \* useState<Platform>
    isScanning,    \* useState(false)
    phase,         \* "new" (rendered, effects not run) | "mounted" | "unmounted"
    observerRef,   \* TRUE while the MutationObserver is connected
    urlHooked,     \* TRUE while popstate is listened to and history is patched
    timeoutId,     \* the debounce closure's timeoutId (NoTimer when null)
    timers,        \* the browser's pending timers: records [id, kind, left, ...]
    \* ---- what the last step did (observations, not program state) -------
    lastScan,      \* the scan the last step ran (Idle when it ran none)
    lastOutcome,   \* how the most recent scan ended
    escaped,       \* TRUE once an exception has left scanForPrompts
    changeSeen,    \* TRUE once the observer has seen a qualifying document change
    sinceChange,   \* ms since the last qualifying change, capped at SinceCap
    burstChanges,  \* qualifying changes in the current burst (2 stands for two or more)
    burstScans,    \* debounced scans run since the current burst of changes began
    \* ---- ChatNavigator geometry -----------------------------------------
    isCollapsed,   \* useState(false)
    position,      \* useState<Position>
    size,          \* useState<Size>
    viewport,      \* [w |-> window.innerWidth, h |-> window.innerHeight]
    isDraggingRef,
    isResizingRef,
    dragStartRef,
    resizeStartRef,
    hasDraggedRef,
    pointer,       \* where the mouse button went down: "up" | "header" | "icon" | "handle"
    movedSinceDown,\* a mousemove was dispatched since the last mousedown
    clickPending,  \* the browser is about to dispatch click on the collapsed icon
    gestures,      \* number of mousedown events so far
    lastPanelEvent,\* the panel handler the last step ran, with the cursor it was given
    resizeStartAt, \* the cursor position of the last mousedown on the resize handle
    \* ---- scrollToPrompt --------------------------------------------------
    style,         \* element -> [outline, transition]: the inline style values
    styleBefore,   \* style as it was before the first scrollToPrompt call
    navCalls,      \* number of scrollToPrompt calls so far
    \* ---- the content script ----------------------------------------------
    readyState,    \* document.readyState
    readyListener, \* the DOMContentLoaded listener onReady registered is pending
    href,          \* location.href
    lastUrl,       \* let lastUrl
    extensionRoots,\* number of elements with the id EXTENSION_ROOT_ID in the document
    rootsCreated,  \* number of root containers initBackTrack has created
    panelsMounted, \* number of createRoot(...).render(<ChatNavigator />) calls
    lastInit       \* how the most recent initBackTrack call ended

scannerVars == <<hostname, dom, prompts, platform, isScanning, phase, observerRef,
                 urlHooked, timeoutId, lastScan, lastOutcome, escaped, changeSeen,
                 sinceChange, burstChanges, burstScans>>
panelVars == <<isCollapsed, position, size, viewport, isDraggingRef, isResizingRef,
               dragStartRef, resizeStartRef, hasDraggedRef, pointer, movedSinceDown,
               clickPending, gestures, lastPanelEvent, resizeStartAt>>
navVars == <<style, styleBefore, navCalls>>
contentVars == <<readyState, readyListener, href, lastUrl, extensionRoots, rootsCreated,
                 panelsMounted, lastInit>>
vars == <<scannerVars, timers, panelVars, navVars, contentVars>>

(***************************************************************************)
(* Program constants                                                       *)
(***************************************************************************)
SCAN_DEBOUNCE_DELAY == 300
URL_SETTLE_DELAY == 500
MAX_PROMPT_TEXT_LENGTH == 80

\* Bounds of the model
TickStep == SCAN_DEBOUNCE_DELAY \div 2
MaxUrlTimers == 1

NoTimer == 0

\* sinceChange stops counting one tick after the debounce delay
SinceCap == SCAN_DEBOUNCE_DELAY + TickStep

Min(a, b) == IF a < b THEN a ELSE b
Max(a, b) == IF a > b THEN a ELSE b

(***************************************************************************)
(* constants.ts: the platform registry                                     *)
(***************************************************************************)
HostChatGPT == <<"c","h","a","t","g","p","t",".","c","o","m">>
HostClaude == <<"c","l","a","u","d","e",".","a","i">>
HostGemini == <<"g","e","m","i","n","i",".","g","o","o","g","l","e",".","c","o","m">>
HostGroq == <<"g","r","o","q",".","c","o","m">>

SelChatGPT == "[data-message-author-role=\"user\"]"
SelClaude == ".font-user-message"
SelGeminiA == ".user-query-wrapper"
SelGeminiB == "[data-test-id=\"user-query\"]"
SelGroqA == ".message-user"
SelGroqB == "[data-role=\"user\"]"

NullConfig == [name |-> "null", hostname |-> <<>>, selectors |-> <<>>]

PLATFORM_CONFIGS ==
    [p \in {"chatgpt", "claude", "gemini", "groq", "unknown"} |->
        CASE p = "chatgpt" -> [name |-> "ChatGPT", hostname |-> HostChatGPT,
                               selectors |-> <<SelChatGPT>>]
          [] p = "claude"  -> [name |-> "Claude", hostname |-> HostClaude,
                               selectors |-> <<SelClaude>>]
          [] p = "gemini"  -> [name |-> "Gemini", hostname |-> HostGemini,
                               selectors |-> <<SelGeminiA, SelGeminiB>>]
          [] p = "groq"    -> [name |-> "Groq", hostname |-> HostGroq,
                               selectors |-> <<SelGroqA, SelGroqB>>]
          [] OTHER         -> NullConfig]

\* String.prototype.includes
includes(h, needle) ==
    \E i \in 0..(Len(h) - Len(needle)) : SubSeq(h, i + 1, i + Len(needle)) = needle

\* The string literals detectPlatform tests for
LitChatGPT == <<"c","h","a","t","g","p","t",".","c","o","m">>
LitClaude == <<"c","l","a","u","d","e",".","a","i">>
LitGemini == <<"g","e","m","i","n","i",".","g","o","o","g","l","e",".","c","o","m">>
LitGroq == <<"g","r","o","q",".","c","o","m">>

\* detectPlatform with the tests in the opposite order
detectPlatformLastFirst(h) ==
    IF includes(h, LitGroq) THEN "groq"
    ELSE IF includes(h, LitGemini) THEN "gemini"
    ELSE IF includes(h, LitClaude) THEN "claude"
    ELSE IF includes(h, LitChatGPT) THEN "chatgpt"
    ELSE "unknown"

detectPlatform(h) ==
    IF includes(h, LitChatGPT) THEN "chatgpt"
    ELSE IF includes(h, LitClaude) THEN "claude"
    ELSE IF includes(h, LitGemini) THEN "gemini"
    ELSE IF includes(h, LitGroq) THEN "groq"
    ELSE "unknown"

\* getPlatformConfig falling back to a default record for the unknown platform
getPlatformConfigDefaulting(p) ==
    IF p = "unknown" THEN PLATFORM_CONFIGS["chatgpt"] ELSE PLATFORM_CONFIGS[p]

getPlatformConfig(p) == PLATFORM_CONFIGS[p]

(***************************************************************************)
(* The document.  An element carries the selectors it matches, its         *)
(* textContent (a sequence of characters), the number of <img> below it    *)
(* and its bounding box (top and left in half pixels).                     *)
(***************************************************************************)
Elem(id, sels, text, imgs, top2, left2) ==
    [id |-> id, sels |-> sels, text |-> text, imgs |-> imgs, top2 |-> top2, left2 |-> left2]

PrimarySels == {SelChatGPT, SelClaude, SelGeminiA, SelGroqA}
FallbackSels == {SelGeminiB, SelGroqB}

ElA1 == Elem(1, PrimarySels, <<"h", "i">>, 0, 200, 41)
ElA2 == Elem(2, PrimarySels, <<" ", "o", "k", " ">>, 1, 401, 41)
ElAEmpty == Elem(3, PrimarySels, <<" ", " ">>, 0, 600, 41)
ElB1 == Elem(4, FallbackSels, <<"y", "o">>, 0, 200, 41)
ElAImg == Elem(5, PrimarySels, <<>>, 2, 800, 40)
\* ElA1 after its text node was edited (a characterData mutation)
ElA1b == Elem(1, PrimarySels, <<"h", "i", "!">>, 0, 200, 41)

Documents ==
    { <<>>,
      <<ElAEmpty, ElB1>>,
      <<ElA1, ElB1>>,
      <<ElA1b, ElB1>> }

HostOther == <<"e","x","a","m","p","l","e",".","o","r","g">>
Hostnames == {HostGemini, HostOther}

Faults == {"none", "query", "extract"}

\* Element ids of a sequence of elements
Ids(els) == {els[i].id : i \in 1..Len(els)}

\* document.querySelectorAll(selector): the matching elements in document order
querySelectorAll(d, selector) == SelectSeq(d, LAMBDA e : selector \in e.sels)

(***************************************************************************)
(* useChatScanner.ts: extractText and generatePromptId                     *)
(***************************************************************************)
IsSpace(c) == c \in {" ", "\t", "\n"}

RECURSIVE trimStart(_)
trimStart(t) == IF t # <<>> /\ IsSpace(Head(t)) THEN trimStart(Tail(t)) ELSE t

RECURSIVE trimEnd(_)
trimEnd(t) ==
    IF t # <<>> /\ IsSpace(t[Len(t)]) THEN trimEnd(SubSeq(t, 1, Len(t) - 1)) ELSE t

\* String.prototype.trim
trim(t) == trimEnd(trimStart(t))

\* The camera emoji is two UTF-16 code units; it is followed by a space.
Camera == <<"D83D", "DCF7", " ">>
Ellipsis == <<".", ".", ".">>

DigitChars == <<"0", "1", "2", "3", "4", "5", "6", "7", "8", "9">>

\* the decimal digits of n, as the template literal writes them
RECURSIVE Digits(_)
Digits(n) ==
    IF n < 10 THEN <<DigitChars[n + 1]>>
    ELSE Digits(n \div 10) \o <<DigitChars[(n % 10) + 1]>>

ImagePlaceholder(imageCount) ==
    IF imageCount = 1
    THEN Camera \o <<"[", "I", "m", "a", "g", "e", "]">>
    ELSE Camera \o <<"[">> \o Digits(imageCount)
                \o <<" ", "I", "m", "a", "g", "e", "s", "]">>

\* annotate with the placeholder put in front of a text as well
annotateCounting(text, imageCount) ==
    IF imageCount > 0 THEN ImagePlaceholder(imageCount) \o text ELSE text

\* the image annotation of the trimmed text
annotate(text, imageCount) ==
    IF text = <<>> /\ imageCount > 0 THEN ImagePlaceholder(imageCount)
    ELSE IF text # <<>> /\ imageCount > 0 THEN Camera \o text
    ELSE text

\* truncate without the cut: the text is returned whatever its length
truncateNever(text) == text

\* truncate with the cut at the maximum length and no ellipsis appended
truncateBare(text) ==
    IF Len(text) > MAX_PROMPT_TEXT_LENGTH
    THEN SubSeq(text, 1, MAX_PROMPT_TEXT_LENGTH)
    ELSE text

\* "Truncate if too long"
truncate(text) ==
    IF Len(text) > MAX_PROMPT_TEXT_LENGTH
    THEN SubSeq(text, 1, MAX_PROMPT_TEXT_LENGTH) \o Ellipsis
    ELSE text

extractText(element) == truncate(annotate(trim(element.text), element.imgs))

\* Math.round on a value given in half units: floor(x + 0.5)
Round2(x2) == (x2 + 1) \div 2

\* ${n} in a template literal, for an integer n: a minus sign before the digits
\* of a negative number
NumberToString(n) == IF n < 0 THEN <<"-">> \o Digits(0 - n) ELSE Digits(n)

PromptPrefix == <<"p", "r", "o", "m", "p", "t">>

\* generatePromptId made of the position alone, without the index
generatePromptIdByPosition(element, index) ==
    PromptPrefix \o <<"-">> \o NumberToString(Round2(element.top2))
                 \o <<"-">> \o NumberToString(Round2(element.left2))

\* `prompt-${index}-${Math.round(rect.top)}-${Math.round(rect.left)}`
generatePromptId(element, index) ==
    PromptPrefix \o <<"-">> \o Digits(index)
                 \o <<"-">> \o NumberToString(Round2(element.top2))
                 \o <<"-">> \o NumberToString(Round2(element.left2))

(***************************************************************************)
(* useChatScanner.ts: scanForPrompts                                       *)
(*                                                                         *)
(* fault says what the environment raises during this scan: "query" makes  *)
(* querySelectorAll throw, "extract" makes extractText throw on the first  *)
(* element it is given, "none" raises nothing.                             *)
(***************************************************************************)
\* pushPrompt with index++ reached for a skipped element as well
pushPromptCountingSkipped(acc, element, text) ==
    IF text = <<>> THEN [acc EXCEPT !.index = acc.index + 1]
    ELSE [threw |-> FALSE,
          found |-> Append(acc.found, [id |-> generatePromptId(element, acc.index),
                                       index |-> acc.index + 1,
                                       text |-> text,
                                       element |-> element.id]),
          index |-> acc.index + 1]

\* The body of the forEach callback for one element whose extracted text is text:
\* skip an empty text, else push the prompt and index++
pushPrompt(acc, element, text) ==
    IF text = <<>> THEN acc
    ELSE [threw |-> FALSE,
          found |-> Append(acc.found, [id |-> generatePromptId(element, acc.index),
                                       index |-> acc.index + 1,
                                       text |-> text,
                                       element |-> element.id]),
          index |-> acc.index + 1]

\* elements.forEach(...); acc holds foundPrompts and index
RECURSIVE forEachElement(_, _, _)
forEachElement(elements, acc, fault) ==
    IF elements = <<>> THEN acc
    ELSE IF fault = "extract" THEN [acc EXCEPT !.threw = TRUE]
    ELSE forEachElement(Tail(elements),
                        pushPrompt(acc, Head(elements), extractText(Head(elements))),
                        fault)

\* stopTrying with the break left out: every selector is tried
stopTryingNever(foundPrompts) == FALSE

\* "If we found prompts with this selector, stop trying others"
stopTrying(foundPrompts) == Len(foundPrompts) > 0

\* for (const selector of config.selectors) { ... }: selectorLoop evaluates
\* selector k, afterSelector decides what follows its forEach (result r)
RECURSIVE selectorLoop(_, _, _, _, _, _)
RECURSIVE afterSelector(_, _, _, _, _, _)
selectorLoop(d, selectors, k, acc, evald, fault) ==
    IF k > Len(selectors)
    THEN [threw |-> FALSE, found |-> acc.found, evaluated |-> evald]
    ELSE IF fault = "query"
    THEN [threw |-> TRUE, found |-> acc.found, evaluated |-> Append(evald, selectors[k])]
    ELSE afterSelector(d, selectors, k,
                       forEachElement(querySelectorAll(d, selectors[k]), acc, fault),
                       Append(evald, selectors[k]), fault)

afterSelector(d, selectors, k, r, evald, fault) ==
    IF r.threw \/ stopTrying(r.found)
    THEN [threw |-> r.threw, found |-> r.found, evaluated |-> evald]
    ELSE selectorLoop(d, selectors, k + 1, r, evald, fault)

\* propagates without the catch block
propagatesUncaught(threw) == threw

\* catch (error) { console.error(...) }: whether an exception thrown in the try
\* block leaves scanForPrompts
propagates(threw) == FALSE

\* the published list after a scan whose try block threw: setPrompts is not reached
promptsOnError(prev) == prev

\* scanningAfterTry without the finally block: the flag raised before the try
\* block stays up when the block throws
scanningAfterTryNoFinally(threw) == threw

\* finally { setIsScanning(false) }
scanningAfterTry(threw) == FALSE

\* try { ... } catch { ... } finally { ... } with r the result of the selector loop
tryResult(currentPlatform, r, prevPrompts) ==
    [platform |-> currentPlatform,
     prompts |-> IF r.threw THEN promptsOnError(prevPrompts) ELSE r.found,
     isScanning |-> scanningAfterTry(r.threw),
     outcome |-> IF r.threw THEN "caught" ELSE "ok",
     evaluated |-> r.evaluated,
     escaped |-> r.threw /\ propagates(r.threw)]

\* scanForPrompts from "const config = getPlatformConfig(currentPlatform)" on
scanWithConfig(currentPlatform, config, d, fault, prevPrompts, prevScanning) ==
    IF config = NullConfig
    THEN [platform |-> currentPlatform, prompts |-> prevPrompts,
          isScanning |-> prevScanning, outcome |-> "unknown",
          evaluated |-> <<>>, escaped |-> FALSE]
    ELSE tryResult(currentPlatform,
                   selectorLoop(d, config.selectors, 1,
                                [threw |-> FALSE, found |-> <<>>, index |-> 0],
                                <<>>, fault),
                   prevPrompts)

\* The state a scan leaves: the values handed to setPlatform, setPrompts and
\* setIsScanning (React applies them together when the handler returns), with
\* outcome, evaluated and escaped recording what the scan did.
scanWithPlatform(currentPlatform, d, fault, prevPrompts, prevScanning) ==
    scanWithConfig(currentPlatform, getPlatformConfig(currentPlatform), d, fault,
                   prevPrompts, prevScanning)

scanForPrompts(h, d, fault, prevPrompts, prevScanning) ==
    scanWithPlatform(detectPlatform(h), d, fault, prevPrompts, prevScanning)

\* What a step that runs no scan leaves in lastScan
Idle == [trigger |-> "none", outcome |-> "none", evaluated |-> <<>>, prev |-> "none"]

\* A handler runs scanForPrompts.  React drops state updates of an unmounted
\* component, so only a live component publishes the result.
Publish(trigger, live, s) ==
    /\ prompts' = IF live THEN s.prompts ELSE prompts
    /\ platform' = IF live THEN s.platform ELSE platform
    /\ isScanning' = IF live THEN s.isScanning ELSE isScanning
    /\ lastScan' = [trigger |-> trigger, outcome |-> s.outcome,
                    evaluated |-> s.evaluated, prev |-> lastOutcome]
    /\ lastOutcome' = s.outcome
    /\ escaped' = (escaped \/ s.escaped)

RunScan(trigger, fault, live) ==
    Publish(trigger, live, scanForPrompts(hostname, dom, fault, prompts, isScanning))

NoScan ==
    /\ lastScan' = Idle
    /\ UNCHANGED <<prompts, platform, isScanning, lastOutcome, escaped>>

(***************************************************************************)
(* Timers: setTimeout, clearTimeout and the passing of time                *)
(***************************************************************************)
Timer(id, kind, delay, el, val) ==
    [id |-> id, kind |-> kind, left |-> delay, el |-> el, val |-> val]

\* setTimeout returns an id that no pending timer has and that is not the one the
\* debounce closure still holds
FreshId(ts, tid) ==
    CHOOSE i \in 1..(Cardinality(ts) + 2) : i # tid /\ \A t \in ts : t.id # i

Due(kind) == {t \in timers : t.kind = kind /\ t.left = 0}
NothingDue == \A t \in timers : t.left > 0

MinLeft(ts) == CHOOSE m \in {t.left : t \in ts} : \A t \in ts : m <= t.left

\* Time passes, up to the next timer that becomes due.
Tick ==
    /\ NothingDue
    /\ timers # {} \/ sinceChange < SinceCap
    /\ LET d == IF timers = {} THEN TickStep ELSE Min(TickStep, MinLeft(timers))
       IN  /\ timers' = {[t EXCEPT !.left = t.left - d] : t \in timers}
           /\ sinceChange' = Min(SinceCap, sinceChange + d)
    /\ NoScan
    /\ UNCHANGED <<hostname, dom, phase, observerRef, urlHooked, timeoutId, changeSeen,
                   burstChanges, burstScans>>
    /\ UNCHANGED <<panelVars, navVars, contentVars>>

(***************************************************************************)
(* useChatScanner.ts: debounce                                             *)
(***************************************************************************)
\* clearPending without the clearTimeout call
clearPendingNothing(ts, tid) == ts

\* if (timeoutId) clearTimeout(timeoutId)
clearPending(ts, tid) == IF tid # NoTimer THEN {t \in ts : t.id # tid} ELSE ts

\* the function debounce returns: the timers and timeoutId after one call
debounced(ts, tid) ==
    LET kept == clearPending(ts, tid)
        id == FreshId(kept, tid)
    IN  [timers |-> kept \cup {Timer(id, "debounce", SCAN_DEBOUNCE_DELAY, 0, "")},
         timeoutId |-> id]

(***************************************************************************)
(* useChatScanner.ts: the hook's effects and handlers                      *)
(***************************************************************************)
\* The mutation records a change from document d1 to d2 produces
addedNodes(d1, d2) == Ids(d2) \ Ids(d1)
removedNodes(d1, d2) == Ids(d1) \ Ids(d2)
textChanged(d1, d2) ==
    {d1[i].id : i \in {k \in 1..Len(d1) :
                         \E j \in 1..Len(d2) : d2[j].id = d1[k].id /\ d2[j].text # d1[k].text}}

\* mutations.some(...): childList with added nodes, or characterData
hasRelevantChanges(d1, d2) == addedNodes(d1, d2) # {} \/ textChanged(d1, d2) # {}

\* The first effect: initial scan, then the observer; the second effect: the
\* popstate listener and the patched history entry points.
Mount ==
    /\ phase = "new"
    /\ \E fault \in Faults : RunScan("mount", fault, TRUE)
    /\ phase' = "mounted"
    /\ observerRef' = TRUE
    /\ urlHooked' = TRUE
    /\ UNCHANGED <<hostname, dom, timeoutId, timers, changeSeen, sinceChange,
                   burstChanges, burstScans>>
    /\ UNCHANGED <<panelVars, navVars, contentVars>>

\* A change now continues the current burst: the last one is less than the delay ago
InBurst == changeSeen /\ sinceChange < SCAN_DEBOUNCE_DELAY

\* The host page changes the document; a connected observer is called back.
DomChange ==
    /\ NothingDue
    /\ phase # "new"
    /\ \E d2 \in Documents \ {dom} :
        /\ dom' = d2
        /\ IF observerRef /\ hasRelevantChanges(dom, d2)
           THEN LET r == debounced(timers, timeoutId)
                IN  /\ timers' = r.timers
                    /\ timeoutId' = r.timeoutId
                    /\ burstScans' = IF InBurst THEN burstScans ELSE 0
                    /\ burstChanges' = IF InBurst THEN Min(2, burstChanges + 1) ELSE 1
                    /\ changeSeen' = TRUE
                    /\ sinceChange' = 0
                    /\ NoScan
           ELSE /\ NoScan
                /\ UNCHANGED <<timers, timeoutId, burstScans, burstChanges, changeSeen,
                               sinceChange>>
    /\ UNCHANGED <<hostname, phase, observerRef, urlHooked>>
    /\ UNCHANGED <<panelVars, navVars, contentVars>>

\* The debounce timer's callback: fn(...args); timeoutId = null
DebounceFire ==
    /\ \E t \in Due("debounce") :
        /\ timers' = timers \ {t}
        /\ \E fault \in Faults : RunScan("debounceFire", fault, phase = "mounted")
        /\ timeoutId' = IF escaped' THEN timeoutId ELSE NoTimer
    /\ burstScans' = Min(2, burstScans + 1)
    /\ UNCHANGED <<hostname, dom, phase, observerRef, urlHooked, changeSeen, sinceChange,
                   burstChanges>>
    /\ UNCHANGED <<panelVars, navVars, contentVars>>

\* rescan leaving the scan to a later time: nothing is scanned in the call
rescanDeferred(h, d, fault, prevPrompts, prevScanning) ==
    [platform |-> detectPlatform(h), prompts |-> prevPrompts, isScanning |-> prevScanning,
     outcome |-> "none", evaluated |-> <<>>, escaped |-> FALSE]

\* rescan(): the identity cache is replaced (nothing reads it), then
\* scanForPrompts() is called directly
rescan(h, d, fault, prevPrompts, prevScanning) ==
    scanForPrompts(h, d, fault, prevPrompts, prevScanning)

\* rescan cancelling the debounced scan that is pending
rescanTimersCancelling(ts, tid) == {t \in ts : t.id # tid}

\* The timers after rescan(): it calls neither clearTimeout nor debouncedScan
rescanTimers(ts, tid) == ts

\* The refresh button (disabled while isScanning): rescan()
Rescan ==
    /\ NothingDue
    /\ phase = "mounted"
    /\ ~isCollapsed
    /\ ~isScanning
    /\ \E fault \in Faults :
        Publish("rescan", TRUE, rescan(hostname, dom, fault, prompts, isScanning))
    /\ timers' = rescanTimers(timers, timeoutId)
    /\ UNCHANGED <<hostname, dom, phase, observerRef, urlHooked, timeoutId,
                   changeSeen, sinceChange, burstChanges, burstScans>>
    /\ UNCHANGED <<panelVars, navVars, contentVars>>

\* handleUrlChange going through the debounce closure's timer: the pending
\* debounce timer is cancelled for the settle timer
handleUrlChangeSharingTimer(ts, tid) ==
    {t \in ts : t.id # tid} \cup {Timer(FreshId(ts, tid), "url", URL_SETTLE_DELAY, 0, "")}

\* handleUrlChange: setTimeout(() => { ...; scanForPrompts(); }, 500), the timer id
\* is not kept
handleUrlChange(ts, tid) ==
    ts \cup {Timer(FreshId(ts, tid), "url", URL_SETTLE_DELAY, 0, "")}

\* popstate, or the page calls the patched pushState / replaceState, which applies
\* the original function (no state of the hook is touched) and then handleUrlChange
UrlChange ==
    /\ NothingDue
    /\ urlHooked
    /\ Cardinality({t \in timers : t.kind = "url"}) < MaxUrlTimers
    /\ timers' = handleUrlChange(timers, timeoutId)
    /\ NoScan
    /\ UNCHANGED <<hostname, dom, phase, observerRef, urlHooked, timeoutId,
                   changeSeen, sinceChange, burstChanges, burstScans>>
    /\ UNCHANGED <<panelVars, navVars, contentVars>>

\* The settle timer's callback
UrlFire ==
    /\ \E t \in Due("url") :
        /\ timers' = timers \ {t}
        /\ \E fault \in Faults : RunScan("urlFire", fault, phase = "mounted")
    /\ UNCHANGED <<hostname, dom, phase, observerRef, urlHooked, timeoutId,
                   changeSeen, sinceChange, burstChanges, burstScans>>
    /\ UNCHANGED <<panelVars, navVars, contentVars>>

\* The cleanups of both effects
disconnectOnCleanup(connected) == FALSE

Unmount ==
    /\ NothingDue
    /\ phase = "mounted"
    /\ phase' = "unmounted"
    /\ observerRef' = disconnectOnCleanup(observerRef)
    /\ urlHooked' = FALSE
    /\ NoScan
    /\ UNCHANGED <<hostname, dom, timeoutId, timers, changeSeen, sinceChange,
                   burstChanges, burstScans>>
    /\ UNCHANGED <<panelVars, navVars, contentVars>>

(***************************************************************************)
(* ChatNavigator.tsx: the panel geometry                                   *)
(*                                                                         *)
(* Coordinates are CSS pixels.  Every cursor coordinate of the model is    *)
(* even, so sizes stay even and the panel centre is a whole pixel.         *)
(***************************************************************************)
DEFAULT_PANEL_SIZE == [width |-> 320, height |-> 400]
MIN_PANEL_SIZE == [width |-> 250, height |-> 200]
DefaultPosition == [x |-> 20, y |-> 100]
DefaultViewport == [w |-> 1200, h |-> 800]
COLLAPSED_SIZE == 48
DRAG_BOTTOM_MARGIN == 50
SNAP_PADDING == 12

Point(x, y) == [x |-> x, y |-> y]
NoPoint == Point(0, 0)
PanelEvent(type, at) == [type |-> type, at |-> at]

\* handleWindowResize leaving the position as it is
handleWindowResizeKeeping(prevPosition, sz, collapsed, vp) == prevPosition

\* handleWindowResize's state updater: the position it leaves
handleWindowResize(prevPosition, sz, collapsed, vp) ==
    LET panelWidth == IF collapsed THEN COLLAPSED_SIZE ELSE sz.width
        panelHeight == IF collapsed THEN COLLAPSED_SIZE ELSE sz.height
        maxX == Max(0, vp.w - panelWidth)
        maxY == Max(0, vp.h - panelHeight)
        newX == Min(prevPosition.x, maxX)
        newY == Min(prevPosition.y, maxY)
    IN  IF newX # prevPosition.x \/ newY # prevPosition.y
        THEN Point(Max(0, newX), Max(0, newY))
        ELSE prevPosition

\* afterRender with an effect that is not run again when the size or mode changes
afterRenderNoEffect(pos, sz, collapsed) == pos

\* The effect with dependencies [size.width, size.height, isCollapsed] runs
\* handleWindowResize again when one of them changed in this render.
afterRender(pos, sz, collapsed) ==
    IF sz # size \/ collapsed # isCollapsed
    THEN handleWindowResize(pos, sz, collapsed, viewport)
    ELSE pos

\* dragPosition without the lower clamp Math.max(0, ...)
dragPositionNoFloor(e, start, sz, collapsed, vp) ==
    Point(Min(vp.w - (IF collapsed THEN COLLAPSED_SIZE ELSE sz.width), e.x - start.x),
          Min(vp.h - DRAG_BOTTOM_MARGIN, e.y - start.y))

\* handleMouseMove, dragging branch: the position handed to setPosition
dragBottomBound(vp, sz, collapsed) == vp.h - DRAG_BOTTOM_MARGIN

dragPosition(e, start, sz, collapsed, vp) ==
    Point(Max(0, Min(vp.w - (IF collapsed THEN COLLAPSED_SIZE ELSE sz.width), e.x - start.x)),
          Max(0, Min(dragBottomBound(vp, sz, collapsed), e.y - start.y)))

\* handleMouseMove, resizing branch: the size handed to setSize
resizeSize(e, start, startSize) ==
    [width |-> Max(MIN_PANEL_SIZE.width, startSize.width + (e.x - start.x)),
     height |-> Max(MIN_PANEL_SIZE.height, startSize.height + (e.y - start.y))]

\* expandsOnClick without the hasDraggedRef test: every click expands
expandsOnClickAlways(hasDragged) == TRUE

\* modeAfterMouseMove with a move that expands the panel
modeAfterMouseMoveExpanding(collapsed) == FALSE

\* handleMouseMove calls setPosition and setSize only: isCollapsed stays as it is
modeAfterMouseMove(collapsed) == collapsed

\* handleMouseUp clearing the dragging flag only
handleMouseUpKeepsResizing(dragging, resizing) ==
    [isDragging |-> FALSE, isResizing |-> resizing]

\* handleMouseUp: isDraggingRef.current = false; isResizingRef.current = false
handleMouseUp(dragging, resizing) == [isDragging |-> FALSE, isResizing |-> FALSE]

\* if (!hasDraggedRef.current) setIsCollapsed(false)
expandsOnClick(hasDragged) == ~hasDragged

\* handleCollapse: panelCenterX, panelCenterY.  Every width and height the
\* panel takes in this model is even, so the halves are exact.
panelCenter(pos, sz) == Point(pos.x + sz.width \div 2, pos.y + sz.height \div 2)

\* handleCollapse with the top and bottom branches tested before left and right
handleCollapseTopFirst(pos, sz, vp) ==
    LET c == panelCenter(pos, sz)
        minDistance == Min(Min(c.x, vp.w - c.x), Min(c.y, vp.h - c.y))
        alongY == Max(SNAP_PADDING, Min(vp.h - COLLAPSED_SIZE - SNAP_PADDING,
                                        c.y - COLLAPSED_SIZE \div 2))
        alongX == Max(SNAP_PADDING, Min(vp.w - COLLAPSED_SIZE - SNAP_PADDING,
                                        c.x - COLLAPSED_SIZE \div 2))
    IN  IF minDistance = c.y THEN Point(alongX, SNAP_PADDING)
        ELSE IF minDistance = vp.h - c.y
        THEN Point(alongX, vp.h - COLLAPSED_SIZE - SNAP_PADDING)
        ELSE IF minDistance = c.x THEN Point(SNAP_PADDING, alongY)
        ELSE Point(vp.w - COLLAPSED_SIZE - SNAP_PADDING, alongY)

\* handleCollapse without the padding clamp along the edge
handleCollapseUnclamped(pos, sz, vp) ==
    LET panelCenterX == pos.x + sz.width \div 2
        panelCenterY == pos.y + sz.height \div 2
        distanceToLeft == panelCenterX
        distanceToRight == vp.w - panelCenterX
        distanceToTop == panelCenterY
        distanceToBottom == vp.h - panelCenterY
        minDistance == Min(Min(distanceToLeft, distanceToRight),
                           Min(distanceToTop, distanceToBottom))
        alongY == panelCenterY - COLLAPSED_SIZE \div 2
        alongX == panelCenterX - COLLAPSED_SIZE \div 2
    IN  IF minDistance = distanceToLeft THEN Point(SNAP_PADDING, alongY)
        ELSE IF minDistance = distanceToRight
        THEN Point(vp.w - COLLAPSED_SIZE - SNAP_PADDING, alongY)
        ELSE IF minDistance = distanceToTop THEN Point(alongX, SNAP_PADDING)
        ELSE Point(alongX, vp.h - COLLAPSED_SIZE - SNAP_PADDING)

\* handleCollapse: the icon position handed to setPosition
handleCollapse(pos, sz, vp) ==
    LET panelCenterX == pos.x + sz.width \div 2
        panelCenterY == pos.y + sz.height \div 2
        distanceToLeft == panelCenterX
        distanceToRight == vp.w - panelCenterX
        distanceToTop == panelCenterY
        distanceToBottom == vp.h - panelCenterY
        minDistance == Min(Min(distanceToLeft, distanceToRight),
                           Min(distanceToTop, distanceToBottom))
        alongY == Max(SNAP_PADDING, Min(vp.h - COLLAPSED_SIZE - SNAP_PADDING,
                                        panelCenterY - COLLAPSED_SIZE \div 2))
        alongX == Max(SNAP_PADDING, Min(vp.w - COLLAPSED_SIZE - SNAP_PADDING,
                                        panelCenterX - COLLAPSED_SIZE \div 2))
    IN  IF minDistance = distanceToLeft THEN Point(SNAP_PADDING, alongY)
        ELSE IF minDistance = distanceToRight
        THEN Point(vp.w - COLLAPSED_SIZE - SNAP_PADDING, alongY)
        ELSE IF minDistance = distanceToTop THEN Point(alongX, SNAP_PADDING)
        ELSE Point(alongX, vp.h - COLLAPSED_SIZE - SNAP_PADDING)

(***************************************************************************)
(* Initial states                                                          *)
(***************************************************************************)
ScannerInit(hosts, docs) ==
    /\ hostname \in hosts
    /\ dom \in docs
    /\ prompts = <<>>
    /\ platform = "unknown"
    /\ isScanning = FALSE
    /\ phase = "new"
    /\ observerRef = FALSE
    /\ urlHooked = FALSE
    /\ timeoutId = NoTimer
    /\ lastScan = Idle
    /\ lastOutcome = "none"
    /\ escaped = FALSE
    /\ changeSeen = FALSE
    /\ sinceChange = SinceCap
    /\ burstChanges = 0
    /\ burstScans = 0

PanelInit(viewports) ==
    /\ isCollapsed = FALSE
    /\ viewport \in viewports
    /\ position = handleWindowResize(DefaultPosition, DEFAULT_PANEL_SIZE, FALSE, viewport)
    /\ size = DEFAULT_PANEL_SIZE
    /\ isDraggingRef = FALSE
    /\ isResizingRef = FALSE
    /\ dragStartRef = [x |-> 0, y |-> 0]
    /\ resizeStartRef = [width |-> 0, height |-> 0]
    /\ hasDraggedRef = FALSE
    /\ pointer = "up"
    /\ movedSinceDown = FALSE
    /\ clickPending = FALSE
    /\ gestures = 0
    /\ lastPanelEvent = PanelEvent("init", NoPoint)
    /\ resizeStartAt = NoPoint

NavInit(styles) ==
    /\ style \in styles
    /\ styleBefore = style
    /\ navCalls = 0

NoStyle == [outline |-> "", transition |-> ""]

\* The content script has run initBackTrack once, with success: the one panel the
\* other handlers belong to is mounted
ContentDone ==
    /\ readyState = "complete"
    /\ readyListener = FALSE
    /\ href = 0
    /\ lastUrl = 0
    /\ extensionRoots = 1
    /\ rootsCreated = 1
    /\ panelsMounted = 1
    /\ lastInit = "initialized"

(***************************************************************************)
(* ChatNavigator.tsx: the pointer and window handlers                      *)
(***************************************************************************)
\* Bounds of the model: the windows, the cursor positions and the number of
\* mousedown events of a behaviour
Viewports == {DefaultViewport, [w |-> 1000, h |-> 800], [w |-> 600, h |-> 500]}
Cursors == {Point(-50, -50), Point(500, 500), Point(1150, 790)}
\* where inside the header or the icon the button goes down
GrabOffsets == {Point(10, 10), Point(24, 30)}
\* the resize handle is the 16 x 16 square at the panel's bottom right corner
HandleOffset == Point(8, 8)
MaxGestures == 2

panelFrame == <<scannerVars, timers, navVars, contentVars>>

\* mousedown on the header (expanded) or on the icon (collapsed): handleDragStart
DragStart ==
    /\ ~clickPending
    /\ gestures < MaxGestures
    /\ \E g \in GrabOffsets :
        LET e == Point(position.x + g.x, position.y + g.y)
        IN  /\ isDraggingRef' = TRUE
            /\ hasDraggedRef' = FALSE
            /\ dragStartRef' = Point(e.x - position.x, e.y - position.y)
            /\ lastPanelEvent' = PanelEvent("dragStart", e)
    /\ pointer' = IF isCollapsed THEN "icon" ELSE "header"
    /\ movedSinceDown' = FALSE
    /\ gestures' = gestures + 1
    /\ UNCHANGED <<isCollapsed, position, size, viewport, isResizingRef, resizeStartRef,
                   clickPending>>
    /\ UNCHANGED resizeStartAt
    /\ UNCHANGED panelFrame

\* mousedown on the resize handle (rendered only when expanded): handleResizeStart
ResizeStart ==
    /\ ~clickPending
    /\ ~isCollapsed
    /\ gestures < MaxGestures
    /\ LET e == Point(position.x + size.width - HandleOffset.x,
                      position.y + size.height - HandleOffset.y)
       IN  /\ isResizingRef' = TRUE
           /\ dragStartRef' = Point(e.x, e.y)
           /\ resizeStartRef' = size
           /\ lastPanelEvent' = PanelEvent("resizeStart", e)
           /\ resizeStartAt' = e
    /\ pointer' = "handle"
    /\ movedSinceDown' = FALSE
    /\ gestures' = gestures + 1
    /\ UNCHANGED <<isCollapsed, position, size, viewport, isDraggingRef, hasDraggedRef,
                   clickPending>>
    /\ UNCHANGED panelFrame

\* mousemove on the document: handleMouseMove, then the render and its effect
MouseMove ==
    /\ ~clickPending
    /\ \E e \in Cursors :
        LET newPosition == IF isDraggingRef
                           THEN dragPosition(e, dragStartRef, size, isCollapsed, viewport)
                           ELSE position
            newSize == IF isResizingRef
                       THEN resizeSize(e, dragStartRef, resizeStartRef)
                       ELSE size
        IN  /\ hasDraggedRef' = (hasDraggedRef \/ isDraggingRef)
            /\ size' = newSize
            /\ position' = afterRender(newPosition, newSize, isCollapsed)
            /\ lastPanelEvent' =
                   PanelEvent(IF isDraggingRef /\ isResizingRef THEN "dragResizeMove"
                              ELSE IF isDraggingRef THEN "dragMove"
                              ELSE IF isResizingRef THEN "resizeMove"
                              ELSE "mouseMove", e)
    /\ movedSinceDown' = TRUE
    /\ isCollapsed' = modeAfterMouseMove(isCollapsed)
    /\ UNCHANGED <<viewport, isDraggingRef, isResizingRef, dragStartRef,
                   resizeStartRef, pointer, clickPending, gestures>>
    /\ UNCHANGED resizeStartAt
    /\ UNCHANGED panelFrame

\* mouseup on the document: handleMouseUp.  When the button went down on the icon
\* and comes up on it, the browser dispatches click next; the icon is still under
\* the cursor if the cursor did not move, and may be if it did.
MouseUp ==
    /\ ~clickPending
    /\ pointer # "up"
    /\ isDraggingRef' = handleMouseUp(isDraggingRef, isResizingRef).isDragging
    /\ isResizingRef' = handleMouseUp(isDraggingRef, isResizingRef).isResizing
    /\ pointer' = "up"
    /\ \E onIcon \in BOOLEAN :
        /\ ~movedSinceDown => onIcon
        /\ clickPending' = (pointer = "icon" /\ isCollapsed /\ onIcon)
    /\ lastPanelEvent' = PanelEvent("mouseUp", NoPoint)
    /\ UNCHANGED <<isCollapsed, position, size, viewport, dragStartRef, resizeStartRef,
                   hasDraggedRef, movedSinceDown, gestures>>
    /\ UNCHANGED resizeStartAt
    /\ UNCHANGED panelFrame

\* click on the collapsed icon: handleMinimizedClick, then the render and its effect
MinimizedClick ==
    /\ clickPending
    /\ clickPending' = FALSE
    /\ isCollapsed' = IF expandsOnClick(hasDraggedRef) THEN FALSE ELSE isCollapsed
    /\ position' = afterRender(position, size, isCollapsed')
    /\ lastPanelEvent' = PanelEvent("click", NoPoint)
    /\ UNCHANGED <<size, viewport, isDraggingRef, isResizingRef, dragStartRef,
                   resizeStartRef, hasDraggedRef, pointer, movedSinceDown, gestures>>
    /\ UNCHANGED resizeStartAt
    /\ UNCHANGED panelFrame

\* click on the minimize button: handleCollapse, then the render and its effect
Collapse ==
    /\ ~clickPending
    /\ ~isCollapsed
    /\ pointer = "up"
    /\ isCollapsed' = TRUE
    /\ position' = afterRender(handleCollapse(position, size, viewport), size, TRUE)
    /\ lastPanelEvent' = PanelEvent("collapse", panelCenter(position, size))
    /\ UNCHANGED <<size, viewport, isDraggingRef, isResizingRef, dragStartRef,
                   resizeStartRef, hasDraggedRef, pointer, movedSinceDown, clickPending,
                   gestures>>
    /\ UNCHANGED resizeStartAt
    /\ UNCHANGED panelFrame

\* The window is resized: the resize event runs handleWindowResize
WindowResize ==
    /\ ~clickPending
    /\ \E vp \in Viewports \ {viewport} :
        /\ viewport' = vp
        /\ position' = handleWindowResize(position, size, isCollapsed, vp)
    /\ lastPanelEvent' = PanelEvent("windowResize", NoPoint)
    /\ UNCHANGED <<isCollapsed, size, isDraggingRef, isResizingRef, dragStartRef,
                   resizeStartRef, hasDraggedRef, pointer, movedSinceDown, clickPending,
                   gestures>>
    /\ UNCHANGED resizeStartAt
    /\ UNCHANGED panelFrame

InitPanel ==
    /\ ScannerInit({HostGemini}, {<<>>})
    /\ timers = {}
    /\ PanelInit(Viewports)
    /\ NavInit({[e \in {1} |-> NoStyle]})
    /\ ContentDone

NextPanel ==
    \/ DragStart
    \/ ResizeStart
    \/ MouseMove
    \/ MouseUp
    \/ MinimizedClick
    \/ Collapse
    \/ WindowResize

SpecPanel == InitPanel /\ [][NextPanel]_vars

(***************************************************************************)
(* Properties of the panel                                                 *)
(***************************************************************************)
FootprintWidth == IF isCollapsed THEN COLLAPSED_SIZE ELSE size.width
FootprintHeight == IF isCollapsed THEN COLLAPSED_SIZE ELSE size.height

\* C2 as claimed: in every reachable state the settled position satisfies
\* 0 <= x <= viewportWidth - footprintWidth and 0 <= y <= viewportHeight -
\* footprintHeight, the footprint being the size when expanded and 48 x 48 when
\* collapsed.
C2_ViewportContainment ==
    /\ 0 <= position.x /\ position.x <= viewport.w - FootprintWidth
    /\ 0 <= position.y /\ position.y <= viewport.h - FootprintHeight

\* C5: a click on the collapsed icon expands the panel if and only if no mousemove
\* occurred between the mousedown on the icon and the mouseup; after a mousedown,
\* mousemove, mouseup sequence the click leaves the panel collapsed.
C5_ClickExpandsIffNoMove ==
    lastPanelEvent.type = "click" => (isCollapsed <=> movedSinceDown)

\* The click that ends a mousedown, mousemove, mouseup gesture on the icon has been
\* handled and the panel is still collapsed
C5_Witness ==
    /\ lastPanelEvent.type = "click"
    /\ movedSinceDown
    /\ hasDraggedRef
    /\ isCollapsed

\* C10: after a drag-move the position has x >= 0 and y >= 0 for every cursor
\* position, and a drag to cursor (-50, -50) leaves the position (0, 0), as it does
\* for the 320 x 400 panel in the 1200 x 800 window.
DragMoves == {"dragMove", "dragResizeMove"}

C10_DragClampNonNegative ==
    lastPanelEvent.type \in DragMoves =>
        /\ position.x >= 0
        /\ position.y >= 0
        /\ lastPanelEvent.at = Point(-50, -50) => position = Point(0, 0)

\* The 320 x 400 panel has been dragged to cursor (-50, -50) in the 1200 x 800 window
C10_Witness ==
    /\ lastPanelEvent = PanelEvent("dragMove", Point(-50, -50))
    /\ size = DEFAULT_PANEL_SIZE
    /\ viewport = DefaultViewport
    /\ ~isCollapsed
    /\ position = Point(0, 0)

\* C11: collapse puts the icon on the viewport edge nearest to the panel's centre
\* (distances measured from the centre to each edge as handleCollapse measures
\* them), along that edge at the centre's coordinate kept 12 px inside the window;
\* of several edges at the same minimum distance the first in the order left,
\* right, top, bottom is taken.
Edges == <<"left", "right", "top", "bottom">>

EdgeDistance(edge, c, vp) ==
    CASE edge = "left" -> c.x
      [] edge = "right" -> vp.w - c.x
      [] edge = "top" -> c.y
      [] edge = "bottom" -> vp.h - c.y

NearestEdges(c, vp) ==
    {k \in 1..4 : \A j \in 1..4 :
        EdgeDistance(Edges[k], c, vp) <= EdgeDistance(Edges[j], c, vp)}

FirstNearestEdge(c, vp) ==
    Edges[CHOOSE k \in NearestEdges(c, vp) : \A j \in NearestEdges(c, vp) : k <= j]

Clamp(v, lo, hi) == IF v > hi THEN (IF hi < lo THEN lo ELSE hi) ELSE IF v < lo THEN lo ELSE v

IconOnEdge(edge, pos, c, vp) ==
    CASE edge = "left" ->
            /\ pos.x = 12
            /\ pos.y = Clamp(c.y - 24, 12, vp.h - 60)
      [] edge = "right" ->
            /\ pos.x = vp.w - 60
            /\ pos.y = Clamp(c.y - 24, 12, vp.h - 60)
      [] edge = "top" ->
            /\ pos.x = Clamp(c.x - 24, 12, vp.w - 60)
            /\ pos.y = 12
      [] edge = "bottom" ->
            /\ pos.x = Clamp(c.x - 24, 12, vp.w - 60)
            /\ pos.y = vp.h - 60

C11_SnapNearestEdge ==
    lastPanelEvent.type = "collapse" =>
        /\ isCollapsed
        /\ IconOnEdge(FirstNearestEdge(lastPanelEvent.at, viewport), position,
                      lastPanelEvent.at, viewport)

\* The panel has been collapsed from a place where two edges were equally near
C11_Witness ==
    /\ lastPanelEvent.type = "collapse"
    /\ isCollapsed
    /\ Cardinality(NearestEdges(lastPanelEvent.at, viewport)) >= 2

\* C18 as claimed: after every drag-move the position is the cursor minus the
\* offset recorded at drag-start, clamped to 0 .. viewportWidth - W in x and to
\* 0 .. viewportHeight - H in y, W and H being the panel's current width and height
\* when expanded and 48 when collapsed.
C18_DragMoveClampsToFootprint ==
    lastPanelEvent.type = "dragMove" =>
        position = Point(Clamp(lastPanelEvent.at.x - dragStartRef.x, 0,
                               viewport.w - FootprintWidth),
                         Clamp(lastPanelEvent.at.y - dragStartRef.y, 0,
                               viewport.h - FootprintHeight))

\* C20: the mode changes only through the collapse and expand transitions: a step
\* that changes it is the collapse button's handler or the click on the icon, never
\* drag-start, drag-move, drag-end, resize-start, resize-move or window-resize.
C20_ModeChangesOnlyByCollapseExpand ==
    [][isCollapsed' # isCollapsed => lastPanelEvent'.type \in {"collapse", "click"}]_vars

\* The collapsed icon has been dragged and is still collapsed
C20_Witness ==
    /\ lastPanelEvent.type = "dragMove"
    /\ hasDraggedRef
    /\ isCollapsed

\* C21: the step that expands the panel leaves the collapsed icon's position
\* re-clamped for the expanded footprint, x' = min(x, max(0, viewportWidth - width))
\* and y' = min(y, max(0, viewportHeight - height)); it snaps to no edge and does
\* not bring back the position the panel had before collapse.
C21_ExpandReclampsIconPosition ==
    [][(isCollapsed /\ ~isCollapsed') =>
           /\ lastPanelEvent'.type = "click"
           /\ size' = size
           /\ position' = Point(Min(position.x, Max(0, viewport.w - size.width)),
                                Min(position.y, Max(0, viewport.h - size.height)))]_vars

\* The icon has been expanded from the right edge, where the panel does not fit
C21_Witness ==
    /\ lastPanelEvent.type = "click"
    /\ ~isCollapsed
    /\ position.x = viewport.w - size.width
    /\ position.x > 0

\* C22: a window-resize event re-clamps the stored position with the current
\* footprint in either mode, x' = min(x, max(0, viewportWidth - footprintWidth)) and
\* y' = min(y, max(0, viewportHeight - footprintHeight)); a position inside these
\* bounds is left as it is, and the size and mode do not change.
C22_ReflowReclampsPosition ==
    [][viewport' # viewport =>
           /\ size' = size
           /\ isCollapsed' = isCollapsed
           /\ position' = Point(Min(position.x, Max(0, viewport'.w - FootprintWidth)),
                                Min(position.y, Max(0, viewport'.h - FootprintHeight)))]_vars

\* The window has shrunk and the panel has been moved to its bottom right corner
C22_Witness ==
    /\ lastPanelEvent.type = "windowResize"
    /\ viewport = [w |-> 600, h |-> 500]
    /\ position = Point(600 - FootprintWidth, 500 - FootprintHeight)
    /\ position.x > 0 /\ position.y > 0

\* C23 as claimed: after every resize-move the size is (max(250, startWidth + dx),
\* max(200, startHeight + dy)) with (dx, dy) the cursor displacement since
\* resize-start and no upper clamp; width >= 250 and height >= 200 in every
\* reachable state; resize-start occurs in expanded mode only.
ResizeMoves == {"resizeMove", "dragResizeMove"}

C23_ResizeFromStartSizeAndDelta ==
    /\ size.width >= 250
    /\ size.height >= 200
    /\ lastPanelEvent.type = "resizeStart" => ~isCollapsed
    /\ lastPanelEvent.type \in ResizeMoves =>
           size = [width |-> Max(250, resizeStartRef.width
                                          + (lastPanelEvent.at.x - resizeStartAt.x)),
                   height |-> Max(200, resizeStartRef.height
                                           + (lastPanelEvent.at.y - resizeStartAt.y))]

\* C28: pointer-up clears the dragging and the resizing flag, and from a pointer-up
\* to the next pointer-down a pointer-move leaves position and size as they are.
MoveTypes == {"mouseMove", "dragMove", "resizeMove", "dragResizeMove"}

C28_NoMoveEffectAfterPointerUp ==
    [][/\ lastPanelEvent'.type = "mouseUp" => (~isDraggingRef' /\ ~isResizingRef')
       /\ (pointer = "up" /\ lastPanelEvent'.type \in MoveTypes) =>
              (position' = position /\ size' = size)]_vars

\* The mouse has moved after the end of a gesture that dragged the panel and resized
\* it, and neither flag is up
C28_Witness ==
    /\ lastPanelEvent.type = "mouseMove"
    /\ pointer = "up"
    /\ hasDraggedRef
    /\ size # DEFAULT_PANEL_SIZE
    /\ ~isDraggingRef /\ ~isResizingRef

\* C30 as claimed: the dragging and the resizing flag are never both set, so a
\* drag-move never computes the position from the point recorded by resize-start.
C30_FlagsNeverBothSet ==
    ~(isDraggingRef /\ isResizingRef)

\* C24: after collapse the icon's coordinate on the snapped axis is 12 (left, top)
\* or viewportExtent - 48 - 12 (right, bottom), and its coordinate along the edge
\* is the previous panel centre minus half the icon size, clamped to
\* 12 .. viewportExtent - 48 - 12; so in a viewport of at least 72 in both
\* dimensions the 48 x 48 icon lies inside the viewport at least 12 from every edge.
C24_IconCentredAndPadded ==
    lastPanelEvent.type = "collapse" =>
        /\ \/ /\ position.x \in {12, viewport.w - 48 - 12}
              /\ position.y = Max(12, Min(viewport.h - 48 - 12, lastPanelEvent.at.y - 24))
           \/ /\ position.y \in {12, viewport.h - 48 - 12}
              /\ position.x = Max(12, Min(viewport.w - 48 - 12, lastPanelEvent.at.x - 24))
        /\ (viewport.w >= 72 /\ viewport.h >= 72) =>
               /\ 12 <= position.x /\ position.x + 48 <= viewport.w - 12
               /\ 12 <= position.y /\ position.y + 48 <= viewport.h - 12

\* The panel has been collapsed onto the top or bottom edge with its centre so far
\* right that the clamp, not the centre, placed the icon
C24_Witness ==
    /\ lastPanelEvent.type = "collapse"
    /\ isCollapsed
    /\ position.y \in {12, viewport.h - 48 - 12}
    /\ lastPanelEvent.at.x - 24 > viewport.w - 48 - 12
    /\ position.x = viewport.w - 48 - 12

(***************************************************************************)
(* ChatNavigator.tsx: scrollToPrompt                                       *)
(***************************************************************************)
HIGHLIGHT_DURATION == 1500
RESTORE_DELAY == 300
HighlightOutline == "2px solid #6366f1"
HighlightTransition == "outline 0.3s ease"
MaxNavCalls == 2

Style(outline, transition) == [outline |-> outline, transition |-> transition]
\* inline styles the page may have given the element
PageStyles == {NoStyle, Style("1px dashed red", "all 1s")}
NavElements == {1}

navFrame == <<scannerVars, panelVars, contentVars>>

\* scrollToPrompt(prompt): capture the inline values, set the highlight, arm the timer
ScrollToPrompt ==
    /\ NothingDue
    /\ navCalls < MaxNavCalls
    /\ \E el \in NavElements :
        LET originalOutline == style[el].outline
            originalTransition == style[el].transition
        IN  /\ style' = [style EXCEPT ![el] = Style(HighlightOutline, HighlightTransition)]
            /\ timers' = timers \cup
                   {Timer(FreshId(timers, NoTimer), "highlight", HIGHLIGHT_DURATION, el,
                          Style(originalOutline, originalTransition))}
    /\ navCalls' = navCalls + 1
    /\ UNCHANGED styleBefore
    /\ UNCHANGED navFrame

\* The outer timer: put the captured outline back, arm the inner timer
HighlightFire ==
    /\ \E t \in Due("highlight") :
        /\ style' = [style EXCEPT ![t.el].outline = t.val.outline]
        /\ timers' = (timers \ {t}) \cup
               {Timer(FreshId(timers \ {t}, NoTimer), "restore", RESTORE_DELAY, t.el, t.val)}
    /\ UNCHANGED <<styleBefore, navCalls>>
    /\ UNCHANGED navFrame

\* The inner timer: put the captured transition back
RestoreFire ==
    /\ \E t \in Due("restore") :
        /\ style' = [style EXCEPT ![t.el].transition = t.val.transition]
        /\ timers' = timers \ {t}
    /\ UNCHANGED <<styleBefore, navCalls>>
    /\ UNCHANGED navFrame

InitNav ==
    /\ ScannerInit({HostGemini}, {<<>>})
    /\ timers = {}
    /\ PanelInit({DefaultViewport})
    /\ NavInit([NavElements -> PageStyles])
    /\ ContentDone

NextNav ==
    \/ ScrollToPrompt
    \/ HighlightFire
    \/ RestoreFire
    \/ Tick

SpecNav == InitNav /\ [][NextNav]_vars

\* C6 as claimed: once every highlight timer has fired, the element's inline outline
\* and transition equal the values they had before the first call, for any sequence
\* of calls, overlapping ones included.
C6_StyleRestored ==
    (navCalls > 0 /\ timers = {}) => style = styleBefore

(***************************************************************************)
(* The scanner                                                             *)
(***************************************************************************)
InitScanner ==
    /\ ScannerInit(Hostnames, Documents)
    /\ timers = {}
    /\ PanelInit({DefaultViewport})
    /\ NavInit({[e \in {1} |-> NoStyle]})
    /\ ContentDone

NextScanner ==
    \/ Mount
    \/ DomChange
    \/ DebounceFire
    \/ Rescan
    \/ UrlChange
    \/ UrlFire
    \/ Unmount
    \/ Tick

SpecScanner == InitScanner /\ [][NextScanner]_vars

(***************************************************************************)
(* Properties of the scanner                                               *)
(***************************************************************************)
\* The last step ran a scan whose result was published
ScanPublished == lastScan.trigger # "none" /\ phase = "mounted"

Selectors == getPlatformConfig(detectPlatform(hostname)).selectors
MatchedBy(k) == querySelectorAll(dom, Selectors[k])
\* The matched elements of selector k whose extracted text is not empty
NonEmptyOf(k) == SelectSeq(MatchedBy(k), LAMBDA e : extractText(e) # <<>>)
PromptElements == [i \in 1..Len(prompts) |-> prompts[i].element]
ElementIds(els) == [i \in 1..Len(els) |-> els[i].id]

Matching == {k \in 1..Len(Selectors) : MatchedBy(k) # <<>>}
Yielding == {k \in 1..Len(Selectors) : NonEmptyOf(k) # <<>>}
First(S) == CHOOSE k \in S : \A j \in S : k <= j

DebouncePending == {t \in timers : t.kind = "debounce"}

C3_DebounceCoalesces ==
    /\ burstScans <= 1
    /\ (changeSeen /\ burstScans = 0) =>
           /\ Cardinality(DebouncePending) = 1
           /\ \A t \in DebouncePending : t.left = SCAN_DEBOUNCE_DELAY - sinceChange
    /\ burstScans = 1 => DebouncePending = {}
    /\ lastScan.trigger = "debounceFire" =>
           (sinceChange = SCAN_DEBOUNCE_DELAY /\ burstScans = 1)

\* The debounced scan of a burst of two or more changes has just run
C3_Witness ==
    /\ lastScan.trigger = "debounceFire"
    /\ burstChanges = 2
    /\ burstScans = 1
    /\ sinceChange = SCAN_DEBOUNCE_DELAY

\* C4 as claimed: after teardown no debounced scan runs.
C4_NoDebouncedScanAfterTeardown ==
    phase = "unmounted" => lastScan.trigger # "debounceFire"

\* C16: a manual rescan runs a scan within the rescan call, whether or not a
\* debounce timer is pending and without waiting for the debounce delay: the step
\* that handles the click has run a scan to its end.
C16_RescanScansAtOnce ==
    lastScan.trigger = "rescan" => lastScan.outcome \in {"ok", "caught", "unknown"}

\* A rescan has scanned the document while a debounce timer armed less than 300 ms
\* ago is still pending
C16_Witness ==
    /\ lastScan.trigger = "rescan"
    /\ lastScan.outcome = "ok"
    /\ DebouncePending # {}
    /\ sinceChange < SCAN_DEBOUNCE_DELAY
    /\ prompts # <<>>

\* C17: the scanning flag is false after every scan has finished, whatever the
\* outcome: normal completion, unknown platform, or an exception during selector
\* evaluation or extraction.
C17_ScanningFlagDownAfterScan ==
    lastScan.trigger # "none" =>
        /\ lastScan.outcome \in {"ok", "unknown", "caught"}
        /\ ~isScanning

\* A scan that threw has finished on a live component and the flag is down
C17_Witness ==
    /\ lastScan.outcome = "caught"
    /\ phase = "mounted"
    /\ ~isScanning

\* C19 as claimed: every batch of document changes the connected observer is
\* handed that adds nodes, removes nodes or changes text arms the debounce timer
\* for a rescan, a batch that only removes nodes included.
C19_EveryChangeSchedulesRescan ==
    [][(/\ observerRef
        /\ dom' # dom
        /\ \/ addedNodes(dom, dom') # {}
           \/ removedNodes(dom, dom') # {}
           \/ textChanged(dom, dom') # {})
       => \E t \in timers' : t.kind = "debounce" /\ t.left = SCAN_DEBOUNCE_DELAY]_vars

\* C26: while the scanner is mounted each URL event (popstate, or a call of the
\* patched pushState or replaceState) schedules exactly one scan that runs when
\* the 500 ms settle delay has passed and not earlier, independently of the
\* debounce timer: the event arms one new timer of 500 ms and runs no scan, leaving
\* every other timer and the debounce closure's timer id as they were; the timer
\* loses time only as time passes for all timers alike; it goes away only by firing
\* at 0 ms left, which runs one scan and leaves the other timers and the debounce
\* closure's timer id as they were.
UrlIds(ts) == {t.id : t \in {u \in ts : u.kind = "url"}}

C31_DirectScansLeaveDebounceTimer ==
    [][/\ lastScan'.trigger \in {"rescan", "urlFire"} =>
              /\ {t \in timers' : t.kind = "debounce"} = DebouncePending
              /\ timeoutId' = timeoutId
              /\ sinceChange' = sinceChange
              /\ burstScans' = burstScans
       /\ lastScan'.trigger = "debounceFire" =>
              /\ sinceChange = SCAN_DEBOUNCE_DELAY
              /\ \E t \in DebouncePending : t.left = 0 /\ t \notin timers'
      ]_vars

\* A manual rescan has just run while the debounce timer of an earlier change was
\* half way to its deadline, and the timer is still pending with that time left
C31_Witness ==
    /\ lastScan.trigger = "rescan"
    /\ phase = "mounted"
    /\ sinceChange = TickStep
    /\ \E t \in DebouncePending : t.id = timeoutId /\ t.left = SCAN_DEBOUNCE_DELAY - TickStep

\* C32 as claimed: after teardown no scan is executed by a navigation settle timer
\* (a 500 ms timer armed by a URL change before teardown runs no scan after it), and
\* the pushState and replaceState entry points are the original ones again, so that
\* no URL change arms a timer any more.
C32_NoSettleScanAfterTeardown ==
    phase = "unmounted" =>
        /\ lastScan.trigger # "urlFire"
        /\ ~urlHooked

\* C7: a scan that runs while the hostname identifies as the unknown platform leaves
\* the published prompt list empty.
C7_UnknownPlatformEmpty ==
    (lastScan.trigger # "none" /\ detectPlatform(hostname) = "unknown") => prompts = <<>>

\* A scan has run on the unknown platform over a document that holds message elements
C7_Witness ==
    /\ lastScan.outcome = "unknown"
    /\ phase = "mounted"
    /\ dom # <<>>

\* C8 as claimed: after a scan in which selector evaluation or extraction threw, the
\* published prompt list is empty.
C8_FailedScanPublishesEmpty ==
    (ScanPublished /\ lastScan.outcome = "caught") => prompts = <<>>

\* C9: no exception raised during selector evaluation or extraction leaves a scan,
\* and a failed scan does not disable scanning: the scanning flag is down after it,
\* so the refresh control stays enabled, and the scan a later trigger runs is not
\* affected by the failure before it.
C9_FailuresContained ==
    /\ ~escaped
    /\ (phase = "mounted" /\ lastOutcome = "caught") => ~isScanning
    /\ (lastScan.prev = "caught" /\ lastScan.trigger # "none") =>
           lastScan.outcome \in {"ok", "caught"}

\* A trigger has run a scan to completion right after a scan that failed
C9_Witness ==
    /\ lastScan.prev = "caught"
    /\ lastScan.outcome = "ok"
    /\ lastScan.trigger \in {"rescan", "debounceFire", "urlFire"}
    /\ ~escaped

(***************************************************************************)
(* extractText over texts around the maximum length                        *)
(***************************************************************************)
MaxTextLength == 120
MaxImages == 11

Filler(n) == [i \in 1..n |-> "a"]
ExtractLengths == {0, 1, 77, 78, 80, 81, MaxTextLength}
ExtractTexts ==
    {Filler(n) : n \in ExtractLengths}
        \cup {<<" ", "\t">> \o Filler(n) \o <<" ", "\n">> : n \in {0, 80}}
ImageCounts == {0, 1, 2, MaxImages}

\* Pages holding one message element
ExtractDocuments ==
    {<<Elem(1, PrimarySels, t, k, 200, 41)>> : t \in ExtractTexts, k \in ImageCounts}

InitExtract ==
    /\ ScannerInit({HostGemini}, ExtractDocuments)
    /\ timers = {}
    /\ PanelInit({DefaultViewport})
    /\ NavInit({[e \in NavElements |-> NoStyle]})
    /\ ContentDone

NextExtract ==
    \/ Mount
    \/ Rescan
    \/ Unmount

SpecExtract == InitExtract /\ [][NextExtract]_vars

\* The text of the page's element after trim, and after trim and annotation
Trimmed == trim(dom[1].text)
Annotated == annotate(Trimmed, dom[1].imgs)
\* The text extractText returned for the page's element in the scan just completed:
\* the text of the published prompt, or the empty string if none was published
Extracted == IF prompts = <<>> THEN <<>> ELSE prompts[1].text
ExtractCompleted == ScanPublished /\ lastScan.outcome = "ok" /\ Len(dom) = 1

\* C12 as claimed: every prompt in the published list has a text of at most 80
\* characters.
C12_TextWithinMaxLength ==
    \A i \in 1..Len(prompts) : Len(prompts[i].text) <= MAX_PROMPT_TEXT_LENGTH

\* C12 amended: every prompt in the published list has a text of at most 83
\* characters, the maximum length plus the 3-character ellipsis marker.
C12_TextWithinMaxLengthPlusEllipsis ==
    \A i \in 1..Len(prompts) : Len(prompts[i].text) <= MAX_PROMPT_TEXT_LENGTH + 3

\* A prompt of 83 characters has been published for a text longer than 80
C12_Witness ==
    /\ ExtractCompleted
    /\ Len(Trimmed) > MAX_PROMPT_TEXT_LENGTH
    /\ prompts # <<>>
    /\ Len(prompts[1].text) = MAX_PROMPT_TEXT_LENGTH + 3

\* C13: if the annotated text is longer than 80 characters the extracted text is
\* its first 80 characters followed by the 3-character ellipsis marker, 83
\* characters in all; if it is 80 characters or shorter the extracted text is the
\* annotated text unchanged.
C13_TruncationAtMaxLength ==
    ExtractCompleted =>
        IF Len(Annotated) > 80
        THEN /\ Len(Extracted) = 83
             /\ \A i \in 1..80 : Extracted[i] = Annotated[i]
             /\ \A i \in 81..83 : Extracted[i] = "."
        ELSE Extracted = Annotated

\* The 120-character text without images has been extracted to 83 characters
C13_Witness ==
    /\ ExtractCompleted
    /\ dom[1].imgs = 0
    /\ Len(Trimmed) = MaxTextLength
    /\ Len(Extracted) = 83

\* C14: an element with no text and k >= 1 images yields exactly the image
\* placeholder (singular wording for k = 1, the count and plural wording for
\* k >= 2); an element with text and at least one image yields the text prefixed
\* with the image marker and no count; an element with no text and no images
\* yields the empty string.  Text is the trimmed text, and the result is stated up
\* to the truncation that follows the annotation.
CameraMarker == <<"D83D", "DCF7", " ">>
SingularPlaceholder == CameraMarker \o <<"[", "I", "m", "a", "g", "e", "]">>
PluralPlaceholder(k) ==
    CameraMarker \o <<"[">> \o Digits(k) \o <<" ", "I", "m", "a", "g", "e", "s", "]">>
UpToTruncation(expected) ==
    IF Len(expected) <= 80 THEN Extracted = expected
    ELSE SubSeq(Extracted, 1, 80) = SubSeq(expected, 1, 80)

DetectHostnames ==
    { <<>>,
      <<"c","h","a","t","g","p","t",".","c","o","m">>,
      <<"w","w","w",".","c","h","a","t","g","p","t",".","c","o","m">>,
      <<"c","h","a","t",".","o","p","e","n","a","i",".","c","o","m">>,
      <<"c","h","a","t","g","p","t",".","c","o">>,
      <<"c","l","a","u","d","e",".","a","i">>,
      <<"g","e","m","i","n","i",".","g","o","o","g","l","e",".","c","o","m">>,
      <<"g","o","o","g","l","e",".","c","o","m">>,
      <<"g","r","o","q",".","c","o","m">>,
      <<"c","o","n","s","o","l","e",".","g","r","o","q",".","c","o","m">>,
      <<"n","o","t","g","r","o","q",".","c","o","m">>,
      <<"c","l","a","u","d","e",".","a","i",".","c","h","a","t","g","p","t",".","c","o","m">>,
      <<"g","r","o","q",".","c","o","m",".","c","l","a","u","d","e",".","a","i">>,
      <<"e","x","a","m","p","l","e",".","o","r","g">> }

InitDetect ==
    /\ ScannerInit(DetectHostnames, Documents)
    /\ timers = {}
    /\ PanelInit({DefaultViewport})
    /\ NavInit({[e \in NavElements |-> NoStyle]})
    /\ ContentDone

NextDetect ==
    \/ Mount
    \/ Rescan
    \/ Unmount

SpecDetect == InitDetect /\ [][NextDetect]_vars

\* C15: the platform identified for a hostname is that of the first entry, in the
\* order chatgpt, claude, gemini, groq, whose configured hostname is a substring of
\* the hostname, and unknown if there is none.
PlatformOrder == <<"chatgpt", "claude", "gemini", "groq">>
ConfiguredIn(h) ==
    {k \in 1..Len(PlatformOrder) : includes(h, PLATFORM_CONFIGS[PlatformOrder[k]].hostname)}
FirstConfiguredIn(h) ==
    IF ConfiguredIn(h) = {} THEN "unknown"
    ELSE PlatformOrder[CHOOSE k \in ConfiguredIn(h) : \A j \in ConfiguredIn(h) : k <= j]

C15_FirstSubstringMatch ==
    /\ detectPlatform(hostname) = FirstConfiguredIn(hostname)
    /\ (lastScan.trigger # "none" /\ phase = "mounted") =>
           platform = FirstConfiguredIn(hostname)

\* A scan has identified a hostname that holds the hostnames of two platforms
C15_Witness ==
    /\ lastScan.trigger # "none"
    /\ phase = "mounted"
    /\ Cardinality(ConfiguredIn(hostname)) = 2
    /\ platform = "claude"


(***************************************************************************)
(* scanForPrompts over pages of several message elements                   *)
(***************************************************************************)
MaxListLen == 3

\* An element whose bounding box rounds to the top and left of ElA1, and one
\* scrolled out of the viewport (negative top and left)
ElA3 == Elem(6, PrimarySels, <<"y">>, 0, 199, 41)
ElANeg == Elem(7, PrimarySels, <<"n">>, 0, -5, -1)

ListElements == {ElA1, ElA2, ElAEmpty, ElAImg, ElB1, ElA3, ElANeg}

\* Pages of up to MaxListLen distinct elements, in any document order
ListDocuments ==
    {d \in UNION {[1..n -> ListElements] : n \in 0..MaxListLen} :
        \A i, j \in DOMAIN d : i # j => d[i] # d[j]}

InitList ==
    /\ ScannerInit(Hostnames, ListDocuments)
    /\ timers = {}
    /\ PanelInit({DefaultViewport})
    /\ NavInit({[e \in NavElements |-> NoStyle]})
    /\ ContentDone

NextList ==
    \/ Mount
    \/ Rescan
    \/ Unmount

SpecList == InitList /\ [][NextList]_vars

\* The elements the selector evaluated last matched, in query order
LastMatched == MatchedBy(Len(lastScan.evaluated))

\* C25: after a scan that completes on a known platform the published list holds
\* exactly the matched elements whose extracted text is not empty, in query order;
\* the i-th entry has index i (contiguous from 1, no gap for a skipped empty
\* element) and carries the element's extracted text, which is never empty.
C25_PublishedListIsNonEmptyMatchesInOrder ==
    (ScanPublished /\ lastScan.outcome = "ok") =>
        /\ Len(prompts) = Len(SelectSeq(LastMatched, LAMBDA e : extractText(e) # <<>>))
        /\ \A i \in 1..Len(prompts) :
               /\ prompts[i].index = i
               /\ prompts[i].text # <<>>
               /\ prompts[i].element =
                      SelectSeq(LastMatched, LAMBDA e : extractText(e) # <<>>)[i].id
               /\ prompts[i].text =
                      extractText(SelectSeq(LastMatched, LAMBDA e : extractText(e) # <<>>)[i])

\* A completed scan published two prompts around a matched element that was
\* skipped for its empty text
C25_Witness ==
    /\ ScanPublished /\ lastScan.outcome = "ok"
    /\ Len(prompts) = 2
    /\ Len(LastMatched) = 3
    /\ extractText(LastMatched[2]) = <<>>
    /\ prompts[2].index = 2


(***************************************************************************)
(* The content script: initBackTrack, onReady and the URL-change observer  *)
(***************************************************************************)
INIT_DELAY == 500

\* Bounds of the model: the URLs the page moves between and the number of
\* initialization timers pending at a time
MaxHref == 2
MaxInitTimers == 2

Hrefs == 0..MaxHref

\* initBackTrack without the presence check for the root element
initBackTrackUnchecked(rootPresent, h) ==
    IF detectPlatform(h) = "unknown" THEN "unknown" ELSE "initialized"

\* initBackTrack: "already" and "unknown" are the early returns; "initialized"
\* creates the root container, appends it to the body and mounts the panel
initBackTrack(rootPresent, h) ==
    IF rootPresent THEN "already"
    ELSE IF detectPlatform(h) = "unknown" THEN "unknown"
    ELSE "initialized"

\* setTimeout(initBackTrack, 500)
scheduleInit(ts) == ts \cup {Timer(FreshId(ts, NoTimer), "init", INIT_DELAY, 0, "")}

\* onReady(callback) at the time the script runs: the callback is called at once
\* unless the document is still loading
onReady(state, ts) ==
    IF state = "loading" THEN [readyListener |-> TRUE, timers |-> ts]
    ELSE [readyListener |-> FALSE, timers |-> scheduleInit(ts)]

\* The callback of the MutationObserver on document.body
onBodyMutation(currentUrl, last, ts) ==
    IF currentUrl # last THEN [lastUrl |-> currentUrl, timers |-> scheduleInit(ts)]
    ELSE [lastUrl |-> last, timers |-> ts]

contentFrame == <<scannerVars, panelVars, navVars>>

\* The document finishes parsing: the listener onReady registered, if any, runs
DOMContentLoaded ==
    /\ NothingDue
    /\ readyState = "loading"
    /\ readyState' = "interactive"
    /\ readyListener' = FALSE
    /\ timers' = IF readyListener THEN scheduleInit(timers) ELSE timers
    /\ UNCHANGED <<href, lastUrl, extensionRoots, rootsCreated, panelsMounted, lastInit>>
    /\ UNCHANGED contentFrame

\* The single-page application moves to another URL
Navigate ==
    /\ NothingDue
    /\ \E u \in Hrefs \ {href} : href' = u
    /\ UNCHANGED <<readyState, readyListener, lastUrl, extensionRoots, rootsCreated,
                   panelsMounted, lastInit, timers>>
    /\ UNCHANGED contentFrame

\* Nodes are added to or removed from the body's subtree: the observer's callback
BodyMutation ==
    /\ NothingDue
    /\ Cardinality({t \in timers : t.kind = "init"}) < MaxInitTimers
    /\ LET r == onBodyMutation(href, lastUrl, timers)
       IN  /\ lastUrl' = r.lastUrl
           /\ timers' = r.timers
    /\ UNCHANGED <<readyState, readyListener, href, extensionRoots, rootsCreated,
                   panelsMounted, lastInit>>
    /\ UNCHANGED contentFrame

\* An initialization timer's callback: initBackTrack()
InitFire ==
    /\ \E t \in Due("init") : timers' = timers \ {t}
    /\ lastInit' = initBackTrack(extensionRoots > 0, hostname)
    /\ extensionRoots' = IF lastInit' = "initialized" THEN extensionRoots + 1
                         ELSE extensionRoots
    /\ rootsCreated' = IF lastInit' = "initialized" THEN rootsCreated + 1 ELSE rootsCreated
    /\ panelsMounted' = IF lastInit' = "initialized" THEN panelsMounted + 1
                        ELSE panelsMounted
    /\ UNCHANGED <<readyState, readyListener, href, lastUrl>>
    /\ UNCHANGED contentFrame

\* The state after the content script's top level has run, in a document that is
\* still loading or already loaded, with or without an element of the root id
InitContent ==
    /\ ScannerInit(Hostnames, {<<>>})
    /\ PanelInit({DefaultViewport})
    /\ NavInit({[e \in {1} |-> NoStyle]})
    /\ readyState \in {"loading", "complete"}
    /\ readyListener = onReady(readyState, {}).readyListener
    /\ timers = onReady(readyState, {}).timers
    /\ href = 0
    /\ lastUrl = href
    /\ extensionRoots \in {0, 1}
    /\ rootsCreated = 0
    /\ panelsMounted = 0
    /\ lastInit = "none"

NextContent ==
    \/ DOMContentLoaded
    \/ Navigate
    \/ BodyMutation
    \/ InitFire
    \/ Tick

SpecContent == InitContent /\ [][NextContent]_vars

\* A step in which an initialization timer's callback ran
InitAttempt == \E t \in timers : t.kind = "init" /\ t.left = 0 /\ timers' = timers \ {t}

\* C27: for any sequence of initialization triggers (the ready callback and any
\* number of URL-change triggers, each after its 500 ms delay) at most one root
\* element with the marker id is ever created and at most one panel is mounted; an
\* initialization attempt on an unknown platform, or when the root already exists,
\* creates nothing; and nothing but an initialization attempt creates a root.
C27_AtMostOneRootAndPanel ==
    [][/\ rootsCreated' <= 1
       /\ panelsMounted' <= 1
       /\ (InitAttempt /\ (extensionRoots > 0 \/ detectPlatform(hostname) = "unknown")) =>
              /\ lastInit' \in {"already", "unknown"}
              /\ UNCHANGED <<extensionRoots, rootsCreated, panelsMounted>>
       /\ ~InitAttempt => UNCHANGED <<extensionRoots, rootsCreated, panelsMounted>>
      ]_vars

\* A later initialization attempt found the root the first one had created
C27_Witness ==
    /\ rootsCreated = 1
    /\ panelsMounted = 1
    /\ extensionRoots = 1
    /\ lastInit = "already"
    /\ href # 0


(***************************************************************************)
(* The scanner under fair scheduling: a due timer's callback runs, and time *)
(* passes while a timer is pending                                         *)
(***************************************************************************)
SpecScannerFair ==
    /\ InitScanner
    /\ [][NextScanner]_vars
    /\ WF_vars(Tick)
    /\ WF_vars(DebounceFire)
    /\ WF_vars(UrlFire)

\* The published list is what a scan of the document as it is now gives
PublishedIsCurrent ==
    prompts = scanForPrompts(hostname, dom, "none", prompts, isScanning).prompts

\* C29 as claimed: once document changes stop, a scan eventually runs after the last
\* change and from then on the published list of the mounted scanner equals the
\* result of scanning the final document, so that no published prompt refers to an
\* element the document no longer holds (scans that throw set aside).
C29_FreshAfterChangesStop ==
    (<>[][dom' = dom]_vars /\ [](lastScan.outcome # "caught")) =>
        <>[](phase = "mounted" => PublishedIsCurrent)


\* The element of the document that the i-th published prompt refers to
PromptElement(i) == CHOOSE e \in {dom[k] : k \in 1..Len(dom)} : e.id = prompts[i].element

\* C33: within one published prompt list all prompt ids are pairwise distinct, for
\* every arrangement of matched elements, those that share the same rounded
\* bounding-box top and left included.
C33_PromptIdsDistinct ==
    \A i, j \in 1..Len(prompts) : i # j => prompts[i].id # prompts[j].id

\* A completed scan published two prompts for elements with the same rounded top
\* and left
C33_Witness ==
    /\ ScanPublished /\ lastScan.outcome = "ok"
    /\ Len(prompts) >= 2
    /\ \E i, j \in 1..Len(prompts) :
           /\ i < j
           /\ Round2(PromptElement(i).top2) = Round2(PromptElement(j).top2)
           /\ Round2(PromptElement(i).left2) = Round2(PromptElement(j).left2)

====
